---- MODULE Spec2Model ----
(***************************************************************************)
(* Model of scripts/dict_parser.py: the entry-text parsing pipeline        *)
(* (normalize_text, the field extractors, build_senses, parse_entry_text)  *)
(* as operators over sequences of characters, and parse_document as a      *)
(* state machine over a sequence of paragraphs.                            *)
(*                                                                         *)
(* A text is a sequence of characters; a character is a string naming it.  *)
(* Python's None is <<>> and a present value x is <<x>> (Some(x)).         *)
(***************************************************************************)
EXTENDS Integers, Sequences, FiniteSets, TLC

VARIABLES
    paras,               \* doc.paragraphs: records [text, isListItem]
    pidx,                \* position of the for-loop over doc.paragraphs
    entries,             \* the output list
    last_entry,          \* index into entries of last_entry, 0 for None
    prev_non_sub_entry,  \* index into entries of prev_non_sub_entry, 0 for None
    aidx,                \* position of the id-assignment loop
    pc,                  \* "loop", "assign", "done"; "fn" under the function specifications
    fin,                 \* argument of the function under check
    fout,                \* its result
    fout2,               \* the result of applying it to its own result
    fpc                  \* "in", "once", "twice"; "doc" under Spec

vars == <<paras, pidx, entries, last_entry, prev_non_sub_entry, aidx, pc,
          fin, fout, fout2, fpc>>

docvars == <<paras, pidx, entries, last_entry, prev_non_sub_entry, aidx, pc>>
fnvars == <<fin, fout, fout2, fpc>>

None == <<>>
Some(x) == <<x>>

----------------------------------------------------------------------------
(* Character classes *)

\* \s of the regular expressions and the characters str.strip() removes
SpaceChars == {" ", "TAB"}
IsSpace(c) == c \in SpaceChars

\* U+0700-U+074F: letters and the vowel and fricative marks
SYRIAC_RANGE == {"S_KAPH", "S_TAW", "S_BETH", "S_ALAPH", "S_RISH", "S_WAW",
                 "S_RUKKAKHA", "S_ZQAPHA", "S_ZLAMA"}

\* U+0600-U+06FF: letters, and also the Arabic comma, semicolon and tatweel
ARABIC_RANGE == {"JEEM", "THEH", "THAL", "FEH", "ALEF", "NOON", "HAH", "WAW",
                 "BEH", "TAH", "ALEF_HAMZA", "MEEM", "SAD", "LAM", "HEH",
                 "SEEN", "AIN", "TEH_MARBUTA", "REH", "DAD", "YEH", "DAL",
                 "ZAH", "KAF",
                 "AR_COMMA", "AR_SEMI", "TATWEEL"}

IPA_LATIN_RANGE == {"a", "b", "k", "LENGTH_MARK"}

----------------------------------------------------------------------------
(* String helpers *)

Drop(s, n) == SubSeq(s, n + 1, Len(s))
Take(s, n) == SubSeq(s, 1, n)

\* str.lstrip()
RECURSIVE lstrip(_)
lstrip(s) == IF s # <<>> /\ IsSpace(Head(s)) THEN lstrip(Tail(s)) ELSE s

\* str.rstrip()
RECURSIVE rstrip(_)
rstrip(s) ==
    IF s # <<>> /\ IsSpace(s[Len(s)]) THEN rstrip(Take(s, Len(s) - 1)) ELSE s

\* str.strip()
strip(s) == rstrip(lstrip(s))

\* length of the whitespace run that starts s
RECURSIVE SpaceRun(_)
SpaceRun(s) == IF s # <<>> /\ IsSpace(Head(s)) THEN 1 + SpaceRun(Tail(s)) ELSE 0

\* RE_MULTISPACE.sub(" ", s): every maximal run of two or more whitespace
\* characters becomes one space; a single whitespace character stays as it is
RECURSIVE RE_MULTISPACE_sub(_)
RE_MULTISPACE_sub(s) ==
    IF s = <<>> THEN <<>>
    ELSE LET n == SpaceRun(s) IN
         IF n >= 2 THEN <<" ">> \o RE_MULTISPACE_sub(Drop(s, n))
         ELSE <<Head(s)>> \o RE_MULTISPACE_sub(Tail(s))

\* s.replace(en dash, "-").replace(em dash, "-")
ReplaceDashes(s) ==
    [i \in 1..Len(s) |-> IF s[i] \in {"EN_DASH", "EM_DASH"} THEN "-" ELSE s[i]]

\* RE_TATWEEL.sub("", s)
RE_TATWEEL_sub(s) == SelectSeq(s, LAMBDA c : c # "TATWEEL")

\* A bug the idempotence check must catch: whitespace collapsed before the
\* tatweel characters are removed.
normalize_text_collapse_first(s) ==
    RE_TATWEEL_sub(RE_MULTISPACE_sub(strip(ReplaceDashes(s))))

normalize_text(s) ==
    RE_MULTISPACE_sub(strip(RE_TATWEEL_sub(ReplaceDashes(s))))

\* RE_DASH_START.match(text): the length of the match, 0 when there is none
\* (a match is never empty: it holds the dash and one whitespace at least)
RE_DASH_START_match(text) ==
    LET n == SpaceRun(text)
        rest == Drop(text, n)
    IN  IF rest # <<>> /\ Head(rest) \in {"-", "EN_DASH", "EM_DASH"}
           /\ SpaceRun(Tail(rest)) >= 1
        THEN n + 1 + SpaceRun(Tail(rest))
        ELSE 0

is_subentry_line(text) == RE_DASH_START_match(text) > 0

strip_subentry_marker(text) == strip(Drop(text, RE_DASH_START_match(text)))

----------------------------------------------------------------------------
(* Regular-expression helpers *)

Min(S) == CHOOSE x \in S : \A y \in S : x <= y

\* length of the longest prefix of s made of characters of Class (a greedy [Class]*)
RECURSIVE RunLen(_, _)
RunLen(s, Class) ==
    IF s # <<>> /\ Head(s) \in Class THEN 1 + RunLen(Tail(s), Class) ELSE 0

\* index of the first character of Class after position p, 0 when there is none
NextIn(s, p, Class) ==
    LET I == {i \in (p + 1)..Len(s) : s[i] \in Class}
    IN  IF I = {} THEN 0 ELSE Min(I)

\* text[:start] + text[end:] for the match that covers positions from..to
Remove(s, from, to) == Take(s, from - 1) \o Drop(s, to)

\* re.split on a character class: the pieces between delimiters, empty ones kept
RECURSIVE re_split(_, _)
re_split(s, Delims) ==
    LET i == NextIn(s, 0, Delims)
    IN  IF i = 0 THEN <<s>>
        ELSE <<Take(s, i - 1)>> \o re_split(Drop(s, i), Delims)

HasChar(s, Class) == \E i \in 1..Len(s) : s[i] \in Class

\* whether token t occurs in s at position p
At(s, p, t) == p + Len(t) - 1 <= Len(s) /\ SubSeq(s, p, p + Len(t) - 1) = t

\* search of  open \s*([^close]+?)\s* close : the leftmost opener whose next
\* closer lies at least two positions on; <<p, q>> or <<>> when nothing matches
DelimitedSearch(s, Open, Close) ==
    LET P == {p \in 1..Len(s) : s[p] \in Open /\ NextIn(s, p, Close) >= p + 2}
    IN  IF P = {} THEN <<>> ELSE <<Min(P), NextIn(s, Min(P), Close)>>

----------------------------------------------------------------------------
(* Field extractors: each yields [field, text] *)

PluralSeparators == {"AR_COMMA", ",", ";", "/", "AR_SEMI"}
\* the character class of group 2 of the plural pattern
PluralFormClass == SYRIAC_RANGE \cup SpaceChars \cup PluralSeparators

\* the forms appended from forms_str
PluralForms(forms_str) ==
    LET raw_forms == re_split(forms_str, PluralSeparators)
        kept == SelectSeq(raw_forms, LAMBDA f : HasChar(strip(f), SYRIAC_RANGE))
    IN  [i \in 1..Len(kept) |-> RE_MULTISPACE_sub(strip(kept[i]))]

extract_plurals(text) ==
    LET \* positions of a jeem that follows ^ or a whitespace, Arabic semicolon
        \* or Arabic comma, and is followed
        \* by at least one character of the form class
        J == {j \in 1..Len(text) :
                /\ text[j] = "JEEM"
                /\ j = 1 \/ text[j - 1] \in SpaceChars \cup {"AR_SEMI", "AR_COMMA"}
                /\ RunLen(Drop(text, j), PluralFormClass) >= 1}
    IN  IF J = {} THEN [field |-> <<>>, text |-> text]
        ELSE LET j == Min(J)
                 start == IF j = 1 THEN 1 ELSE j - 1
                 run == RunLen(Drop(text, j), PluralFormClass)
                 ws == SpaceRun(Drop(text, j))
                 \* \s* is greedy and gives one character back when the
                 \* run is whitespace only
                 lead == IF ws < run THEN ws ELSE run - 1
                 forms_str == SubSeq(text, j + lead + 1, j + run)
             IN  [field |-> PluralForms(forms_str),
                  text |-> strip(Remove(text, start, j + run))]

\* the class after the first character of latin_pattern (its length and
\* stress marks lie in IPA_LATIN_RANGE already)
IpaRunClass == IPA_LATIN_RANGE \cup SpaceChars \cup {".", "'", "-"}

extract_ipa(text) ==
    LET a == DelimitedSearch(text, {"/"}, {"/"})
        b == DelimitedSearch(text, {"["}, {"]"})
        C == {p \in 1..(Len(text) - 1) :
                text[p] \in IPA_LATIN_RANGE /\ text[p + 1] \in IpaRunClass}
    IN  IF a # <<>>
        THEN [field |-> Some(strip(SubSeq(text, a[1] + 1, a[2] - 1))),
              text |-> strip(Remove(text, a[1], a[2]))]
        ELSE IF b # <<>> /\ HasChar(SubSeq(text, b[1] + 1, b[2] - 1), IPA_LATIN_RANGE)
        THEN [field |-> Some(strip(SubSeq(text, b[1] + 1, b[2] - 1))),
              text |-> strip(Remove(text, b[1], b[2]))]
        ELSE IF C # {}
        THEN LET p == Min(C)
                 e == p + RunLen(Drop(text, p), IpaRunClass)
             IN  [field |-> Some(strip(SubSeq(text, p, e))),
                  text |-> strip(Remove(text, p, e))]
        ELSE [field |-> None, text |-> text]

\* the nine part-of-speech words, in the order of the alternation
pos_tokens == << <<"ALEF", "SEEN", "MEEM">>, <<"FEH", "AIN", "LAM">>,
                 <<"SAD", "FEH", "TEH_MARBUTA">>, <<"HAH", "ALEF", "LAM">>,
                 <<"HAH", "REH", "FEH">>, <<"DAD", "MEEM", "YEH", "REH">>,
                 <<"AIN", "DAL", "DAL">>, <<"ZAH", "REH", "FEH">>,
                 <<"MEEM", "SAD", "DAL", "REH">> >>

\* the token matched at position p as a standalone word, 0 when none is
PosTokenAt(text, p) ==
    LET K == {k \in 1..Len(pos_tokens) :
                /\ p = 1 \/ IsSpace(text[p - 1])
                /\ At(text, p, pos_tokens[k])
                /\ LET e == p + Len(pos_tokens[k])
                   IN  e > Len(text) \/ IsSpace(text[e])}
    IN  IF K = {} THEN 0 ELSE Min(K)

extract_pos(text) ==
    LET P == {p \in 1..Len(text) : PosTokenAt(text, p) > 0}
    IN  IF P = {} THEN [field |-> None, text |-> text]
        ELSE LET p == Min(P)
                 pos == pos_tokens[PosTokenAt(text, p)]
             IN  [field |-> Some(pos),
                  text |-> strip(Remove(text, p, p + Len(pos) - 1))]

\* the class after the first character of RE_SYRIAC_RUN: Syriac, \s, '.', '-'
\* and the listed marks (outside the Syriac block: diaeresis, middle dot)
SyriacRunClass == SYRIAC_RANGE \cup SpaceChars
                    \cup {".", "-", "COMBINING_DIAERESIS", "MIDDLE_DOT"}

extract_lemma(text) ==
    LET P == {p \in 1..(Len(text) - 1) :
                text[p] \in SYRIAC_RANGE /\ text[p + 1] \in SyriacRunClass}
    IN  IF P = {} THEN [field |-> None, text |-> text]
        ELSE LET p == Min(P)
                 e == p + RunLen(Drop(text, p), SyriacRunClass)
             IN  [field |-> Some(RE_MULTISPACE_sub(strip(SubSeq(text, p, e)))),
                  text |-> strip(Remove(text, p, e))]

RECURSIVE extract_notes(_)
extract_notes(text) ==
    LET m == DelimitedSearch(text, {"(", "[", "LAQUO"}, {")", "]", "RAQUO"})
    IN  IF m = <<>> THEN [field |-> <<>>, text |-> text]
        ELSE LET note == strip(SubSeq(text, m[1] + 1, m[2] - 1))
                 rest == extract_notes(strip(Remove(text, m[1], m[2])))
             IN  [field |-> (IF note # <<>> THEN <<note>> ELSE <<>>) \o rest.field,
                  text |-> rest.text]

----------------------------------------------------------------------------
(* Sense segmenter *)

\* A bug the segment check must catch: segments without an Arabic character
\* are kept.
split_primary_senses_keep_all(text) ==
    LET parts == re_split(text, {"/", "AR_SEMI", ";"})
        stripped == [i \in 1..Len(parts) |-> strip(parts[i])]
    IN  SelectSeq(stripped, LAMBDA p : p # <<>>)

split_primary_senses(text) ==
    LET parts == re_split(text, {"/", "AR_SEMI", ";"})
        stripped == [i \in 1..Len(parts) |-> strip(parts[i])]
    IN  SelectSeq(stripped, LAMBDA p : p # <<>> /\ HasChar(p, ARABIC_RANGE))

\* <<main, synonyms>>
split_synonyms(sense) ==
    LET segs == re_split(sense, {"."})
        raw == SelectSeq([i \in 1..Len(segs) |-> strip(segs[i])],
                         LAMBDA seg : seg # <<>>)
    IN  IF raw = <<>> THEN <<sense, <<>> >>
        ELSE IF Len(raw) = 1 THEN <<raw[1], <<>> >>
        ELSE <<raw[1], Tail(raw)>>

\* the loop of build_senses over primary: [senses, linear]
RECURSIVE build_senses_loop(_)
build_senses_loop(primary) ==
    IF primary = <<>> THEN [senses |-> <<>>, linear |-> <<>>]
    ELSE LET ms == split_synonyms(Head(primary))
             rest == build_senses_loop(Tail(primary))
         IN  [senses |-> <<[gloss |-> ms[1], synonyms |-> ms[2]]>> \o rest.senses,
              linear |-> <<ms[1]>> \o ms[2] \o rest.linear]

build_senses(gloss_text) == build_senses_loop(split_primary_senses(gloss_text))

----------------------------------------------------------------------------
(* Attribute mapper *)

PAREN_MARKERS ==
    (<<"THEH">> :> <<"gender", "f">>)
 @@ (<<"THAL">> :> <<"gender", "m">>)
 @@ (<<"THAL", ".", "THEH">> :> <<"gender", "mf">>)
 @@ (<<"FEH", "ALEF">> :> <<"agent", TRUE>>)
 @@ (<<"NOON", "HAH", "WAW">> :> <<"domain", "linguistic">>)
 @@ (<<"S_RISH", "S_WAW">> :> <<"tradition", "ancientSong">>)
 @@ (<<"HAH">> :> <<"domain", "animal">>)
 @@ (<<"NOON", "BEH">> :> <<"domain", "plant">>)
 @@ (<<"TAH">> :> <<"domain", "bird">>)
 @@ (<<"ALEF_HAMZA", ".", " ", "MEEM">> :> <<"cuneiform", TRUE>>)
 @@ (<<"SAD">> :> <<"phoneticChange", TRUE>>)
 @@ (<<"MEEM", "THEH", "LAM", "HEH">> :> <<"sameMeaningAsPrevious", TRUE>>)
 @@ (<<"JEEM">> :> <<"pluralIndicator", TRUE>>)

\* d[k] = v on a dict
DictSet(d, k, v) == [j \in DOMAIN d \cup {k} |-> IF j = k THEN v ELSE d[j]]

\* d.get(k): None when the key is absent
DictGet(d, k) == IF k \in DOMAIN d THEN Some(d[k]) ELSE None

EmptyDict == [k \in {} |-> TRUE]

\* the loop of extract_parenthetical_markers: [attributes, remaining_notes]
RECURSIVE markers_loop(_, _, _)
markers_loop(notes, attributes, remaining_notes) ==
    IF notes = <<>>
    THEN [attributes |-> attributes, remaining_notes |-> remaining_notes]
    ELSE LET n == Head(notes)
             token == strip(n)
         IN  IF token \in DOMAIN PAREN_MARKERS
             THEN LET key == PAREN_MARKERS[token][1]
                      val == PAREN_MARKERS[token][2]
                  IN  IF key = "domain"
                      THEN LET old == IF "domain" \in DOMAIN attributes
                                      THEN attributes["domain"] ELSE <<>>
                               new == IF \E i \in 1..Len(old) : old[i] = val
                                      THEN old ELSE Append(old, val)
                           IN  markers_loop(Tail(notes),
                                            DictSet(attributes, "domain", new),
                                            remaining_notes)
                      ELSE markers_loop(Tail(notes),
                                        DictSet(attributes, key, val),
                                        remaining_notes)
             ELSE markers_loop(Tail(notes), attributes, Append(remaining_notes, n))

extract_parenthetical_markers(notes) == markers_loop(notes, EmptyDict, <<>>)

----------------------------------------------------------------------------
(* Entry builder *)

\* str.lstrip('*')
RECURSIVE lstrip_star(_)
lstrip_star(s) == IF s # <<>> /\ Head(s) = "*" THEN lstrip_star(Tail(s)) ELSE s

\* parse_entry_text with infer_phrase_type at its default, True (no caller
\* passes it)
parse_entry_text(raw_text) ==
    LET text0 == normalize_text(raw_text)
        foreign_flag == text0 # <<>> /\ Head(text0) = "*"
        text1 == IF foreign_flag THEN lstrip(lstrip_star(text0)) ELSE text0
        pl == extract_plurals(text1)
        ip == extract_ipa(pl.text)
        po == extract_pos(ip.text)
        le == extract_lemma(po.text)
        no == extract_notes(le.text)
        gloss_text == strip(no.text)
        built == IF gloss_text # <<>> THEN build_senses(gloss_text)
                 ELSE [senses |-> <<>>, linear |-> <<>>]
        am == extract_parenthetical_markers(no.field)
        attributes == IF foreign_flag
                      THEN DictSet(am.attributes, "foreign", TRUE)
                      ELSE am.attributes
    IN  [id |-> None,
         lemma |-> le.field,
         ipa |-> ip.field,
         pos |-> po.field,
         plurals |-> pl.field,
         glosses |-> built.linear,
         senses |-> built.senses,
         notes |-> am.remaining_notes,
         attributes |-> attributes,
         subentries |-> <<>>,
         metadata |-> IF le.field = None /\ built.linear # <<>>
                      THEN DictSet(EmptyDict, "type", "phrase")
                      ELSE EmptyDict]

----------------------------------------------------------------------------
(* Document assembler: parse_document *)

\* os.path.basename(input_path) of the run
source_name == <<"b", ".", "d">>

\* os.path.splitext(name)[0]: the name up to its last dot, the whole name when
\* it has no dot after its first character
splitext_root(name) ==
    LET D == {i \in 2..Len(name) : name[i] = "."}
    IN  IF D = {} THEN name ELSE Take(name, (CHOOSE i \in D : \A j \in D : j <= i) - 1)

base == splitext_root(source_name)

DigitChars == <<"0", "1", "2", "3", "4", "5", "6", "7", "8", "9">>

\* the decimal digits of n >= 0
RECURSIVE DecDigits(_)
DecDigits(n) ==
    IF n < 10 THEN <<DigitChars[n + 1]>>
    ELSE DecDigits(n \div 10) \o <<DigitChars[(n % 10) + 1]>>

\* zeros in front of s up to width w
RECURSIVE ZeroPad(_, _)
ZeroPad(s, w) == IF Len(s) >= w THEN s ELSE ZeroPad(<<"0">> \o s, w)

IdWidth == 4

\* A bug the id check must catch: the sequence number is not zero-padded.
EntryId_unpadded(i) == base \o <<":">> \o DecDigits(i)

\* f"{base}:{i:04d}"
EntryId(i) == base \o <<":">> \o ZeroPad(DecDigits(i), IdWidth)

\* f"{entry_id}-{j}"
SubId(entry_id, j) == entry_id \o <<"-">> \o DecDigits(j)

\* is_list_item(para): the paragraph source's list-item signal
is_list_item(para) == para.isListItem

\* entry.get("attributes", {}).get("sameMeaningAsPrevious"), as a truth value
SameMeaningFlag(entry) ==
    /\ "sameMeaningAsPrevious" \in DOMAIN entry.attributes
    /\ entry.attributes["sameMeaningAsPrevious"] = TRUE

\* A bug the linearization check must catch: the senses are inherited and the
\* flat glosses are left as they were.
InheritTop_senses_only(entry, prev) ==
    IF SameMeaningFlag(entry) /\ entry.senses = <<>>
    THEN [entry EXCEPT !.senses = prev.senses,
                       !.metadata = DictSet(@, "inheritedFrom", prev.id)]
    ELSE entry

\* the top-level inheritance: senses and glosses of prev, and prev.get("id")
\* as it is at this moment, recorded under inheritedFrom
InheritTop(entry, prev) ==
    IF SameMeaningFlag(entry) /\ entry.senses = <<>>
    THEN [entry EXCEPT !.senses = prev.senses,
                       !.glosses = prev.glosses,
                       !.metadata = DictSet(@, "inheritedFrom", prev.id)]
    ELSE entry

\* A bug the subentry-inheritance check must catch: a flagged subentry
\* inherits even when it has senses of its own.
AssignSub_ignores_own_senses(sub, entry, entry_id, j) ==
    LET meta == DictSet(DictSet(DictSet(sub.metadata, "source", source_name),
                                "parent", entry_id),
                        "subindex", j)
        stamped == [sub EXCEPT !.id = Some(SubId(entry_id, j)), !.metadata = meta]
    IN  IF SameMeaningFlag(sub) /\ entry.senses # <<>>
        THEN [stamped EXCEPT !.senses = entry.senses,
                             !.glosses = entry.glosses,
                             !.metadata = DictSet(meta, "inheritedFrom", Some(entry_id))]
        ELSE stamped

\* the body of the inner loop of the id pass for the j-th subentry of entry
\* (entry already carries entry_id); inheritedFrom holds the parent's id
AssignSub(sub, entry, entry_id, j) ==
    LET meta == DictSet(DictSet(DictSet(sub.metadata, "source", source_name),
                                "parent", entry_id),
                        "subindex", j)
        stamped == [sub EXCEPT !.id = Some(SubId(entry_id, j)), !.metadata = meta]
    IN  IF SameMeaningFlag(sub) /\ sub.senses = <<>> /\ entry.senses # <<>>
        THEN [stamped EXCEPT !.senses = entry.senses,
                             !.glosses = entry.glosses,
                             !.metadata = DictSet(meta, "inheritedFrom", Some(entry_id))]
        ELSE stamped

\* the body of the outer loop of the id pass for the i-th entry
AssignEntry(entry, i) ==
    LET entry_id == EntryId(i)
        meta == DictSet(DictSet(entry.metadata, "source", source_name), "index", i)
        stamped == [entry EXCEPT !.id = Some(entry_id), !.metadata = meta]
    IN  [stamped EXCEPT !.subentries =
            [j \in 1..Len(entry.subentries) |->
                AssignSub(entry.subentries[j], stamped, entry_id, j)]]

\* The paragraphs a document is drawn from
T_ENTRY == <<"S_KAPH", "S_TAW", " ", "KAF", "LAM">>
T_SAME == <<"(", "MEEM", "THEH", "LAM", "HEH", ")">>
T_GLOSS_SYN == <<"KAF", "LAM", ".", " ", "LAM", "KAF", "/", "KAF">>
T_BLANK == <<" ", "TATWEEL">>
Para(text, li) == [text |-> text, isListItem |-> li]

Paragraphs ==
    { Para(T_ENTRY, TRUE),
      Para(T_SAME, TRUE),
      Para(T_GLOSS_SYN, TRUE),
      Para(T_BLANK, TRUE),
      Para(T_ENTRY, FALSE),
      Para(<<"-", " ">> \o T_SAME, TRUE),
      Para(<<"EN_DASH", " ", " ">> \o T_ENTRY, FALSE),
      Para(<<"EM_DASH", " ">> \o T_SAME \o <<" ", "LAM", "KAF">>, FALSE),
      Para(T_SAME \o <<" ", "LAM", "KAF">>, TRUE),
      Para(<<"-", "TAB">> \o T_SAME \o <<"S_BETH", "S_ALAPH">>, FALSE) }

MaxParas == 3

Documents == UNION {[1..n -> Paragraphs] : n \in 0..MaxParas}

Init ==
    /\ paras \in Documents
    /\ pidx = 1
    /\ entries = <<>>
    /\ last_entry = 0
    /\ prev_non_sub_entry = 0
    /\ aidx = 0
    /\ pc = "loop"
    /\ fin = <<>> /\ fout = <<>> /\ fout2 = <<>> /\ fpc = "doc"

\* the paragraph of the current iteration and its normalized text
para == paras[pidx]
ptext == normalize_text(para.text)

InLoop == pc = "loop" /\ pidx <= Len(paras)

Continue ==
    /\ pidx' = pidx + 1
    /\ UNCHANGED <<paras, aidx, pc, fnvars>>

\* if not text: continue
SkipEmpty ==
    /\ InLoop
    /\ ptext = <<>>
    /\ Continue
    /\ UNCHANGED <<entries, last_entry, prev_non_sub_entry>>

\* A bug the orphan check must catch: a subentry line met while last_entry is
\* None starts an entry of its own.
DropOrphan_starts_entry ==
    /\ InLoop
    /\ ptext # <<>>
    /\ is_subentry_line(ptext)
    /\ last_entry = 0
    /\ entries' = Append(entries, parse_entry_text(strip_subentry_marker(ptext)))
    /\ last_entry' = Len(entries) + 1
    /\ prev_non_sub_entry' = Len(entries) + 1
    /\ Continue

\* a subentry line while last_entry is None: skipped
DropOrphan ==
    /\ InLoop
    /\ ptext # <<>>
    /\ is_subentry_line(ptext)
    /\ last_entry = 0
    /\ Continue
    /\ UNCHANGED <<entries, last_entry, prev_non_sub_entry>>

\* a subentry line appended to last_entry's subentries
AppendSub ==
    /\ InLoop
    /\ ptext # <<>>
    /\ is_subentry_line(ptext)
    /\ last_entry # 0
    /\ LET sub == parse_entry_text(strip_subentry_marker(ptext))
       IN  entries' = [entries EXCEPT ![last_entry].subentries = Append(@, sub)]
    /\ Continue
    /\ UNCHANGED <<last_entry, prev_non_sub_entry>>

\* A bug the top-level check must catch: the list-item test is not preceded
\* by the subentry test.
NewEntry_list_test_first ==
    /\ InLoop
    /\ ptext # <<>>
    /\ is_list_item(para)
    /\ LET entry == parse_entry_text(ptext)
           final == IF prev_non_sub_entry # 0
                    THEN InheritTop(entry, entries[prev_non_sub_entry])
                    ELSE entry
       IN  entries' = Append(entries, final)
    /\ last_entry' = Len(entries) + 1
    /\ prev_non_sub_entry' = Len(entries) + 1
    /\ Continue

\* a list item that is no subentry line: a new top-level entry
NewEntry ==
    /\ InLoop
    /\ ptext # <<>>
    /\ ~is_subentry_line(ptext)
    /\ is_list_item(para)
    /\ LET entry == parse_entry_text(ptext)
           final == IF prev_non_sub_entry # 0
                    THEN InheritTop(entry, entries[prev_non_sub_entry])
                    ELSE entry
       IN  entries' = Append(entries, final)
    /\ last_entry' = Len(entries) + 1
    /\ prev_non_sub_entry' = Len(entries) + 1
    /\ Continue

\* any other paragraph is ignored
IgnoreOther ==
    /\ InLoop
    /\ ptext # <<>>
    /\ ~is_subentry_line(ptext)
    /\ ~is_list_item(para)
    /\ Continue
    /\ UNCHANGED <<entries, last_entry, prev_non_sub_entry>>

\* the end of the paragraph loop
EndLoop ==
    /\ pc = "loop"
    /\ pidx > Len(paras)
    /\ pc' = "assign"
    /\ aidx' = 1
    /\ UNCHANGED <<paras, pidx, entries, last_entry, prev_non_sub_entry, fnvars>>

\* one iteration of the id pass
AssignIds ==
    /\ pc = "assign"
    /\ aidx <= Len(entries)
    /\ entries' = [entries EXCEPT ![aidx] = AssignEntry(@, aidx)]
    /\ aidx' = aidx + 1
    /\ UNCHANGED <<paras, pidx, last_entry, prev_non_sub_entry, pc, fnvars>>

\* return entries
Return ==
    /\ pc = "assign"
    /\ aidx > Len(entries)
    /\ pc' = "done"
    /\ UNCHANGED <<paras, pidx, entries, last_entry, prev_non_sub_entry, aidx, fnvars>>

Next ==
    \/ SkipEmpty
    \/ DropOrphan
    \/ AppendSub
    \/ NewEntry
    \/ IgnoreOther
    \/ EndLoop
    \/ AssignIds
    \/ Return

Spec == Init /\ [][Next]_vars

----------------------------------------------------------------------------
(* Where the output comes from, read off the document *)

ntext(k) == normalize_text(paras[k].text)

\* paragraph k starts a top-level entry: non-empty, no dash prefix, a list item
StartsEntry(k) ==
    ntext(k) # <<>> /\ ~is_subentry_line(ntext(k)) /\ paras[k].isListItem

\* paragraph k is subentry-marked (dash-prefixed)
IsDashPara(k) == ntext(k) # <<>> /\ is_subentry_line(ntext(k))

\* the paragraph of the n-th top-level entry in encounter order
TopPara(n) ==
    CHOOSE k \in 1..Len(paras) :
        StartsEntry(k) /\ Cardinality({i \in 1..k : StartsEntry(i)}) = n

\* the dash-prefixed paragraphs that follow TopPara(n) before the next entry
SubParas(n) ==
    {k \in (TopPara(n) + 1)..Len(paras) :
        IsDashPara(k) /\ \A i \in (TopPara(n) + 1)..k : ~StartsEntry(i)}

\* the paragraph of the j-th subentry of the n-th entry
SubPara(n, j) ==
    CHOOSE k \in SubParas(n) : Cardinality({i \in SubParas(n) : i <= k}) = j

\* what the entry builder makes of those paragraphs on their own
OwnTop(n) == parse_entry_text(ntext(TopPara(n)))
OwnSub(n, j) == parse_entry_text(strip_subentry_marker(ntext(SubPara(n, j))))

Tops == 1..Len(entries)
Subs(n) == 1..Len(entries[n].subentries)

----------------------------------------------------------------------------
(* Claims about parse_document *)

\* C1: a top-level entry B built from a list-item paragraph that sets
\* sameMeaningAsPrevious and has no senses of its own, and that follows a
\* top-level entry A, ends up with B.senses = A.senses, B.flatGlosses =
\* A.flatGlosses and B.metadata.inheritedFrom = A.id, the id A carries in the
\* final output.
C1_TopInheritsFromPreviousId ==
    pc = "done" =>
        \A b \in Tops \ {1} :
            SameMeaningFlag(OwnTop(b)) /\ OwnTop(b).senses = <<>> =>
                /\ entries[b].senses = entries[b - 1].senses
                /\ entries[b].glosses = entries[b - 1].glosses
                /\ DictGet(entries[b].metadata, "inheritedFrom") = Some(entries[b - 1].id)

\* every dash-prefixed paragraph comes before the first entry-starting one
AllDashesBeforeFirstEntry ==
    \A k \in 1..Len(paras) : IsDashPara(k) => \A i \in 1..k : ~StartsEntry(i)

C2_Step ==
    /\ InLoop /\ IsDashPara(pidx) /\ Len(entries) = 0 =>
          entries' = entries /\ pidx' = pidx + 1 /\ pc' = "loop"
    /\ pc' = "done" =>
          /\ Len(entries') = Cardinality({k \in 1..Len(paras) : StartsEntry(k)})
          /\ \A n \in 1..Len(entries') :
                Len(entries'[n].subentries) = Cardinality(SubParas(n))
          /\ AllDashesBeforeFirstEntry =>
                \A n \in 1..Len(entries') : entries'[n].subentries = <<>>

\* C2: a dash-prefixed paragraph processed while no top-level entry exists is
\* dropped: the output is unchanged by it and the loop goes on to the next
\* paragraph; the final output holds exactly the entries and subentries the
\* other paragraphs account for, and a document whose dash-prefixed paragraphs
\* all precede the first list-item entry ends with no subentry at all.
C2_OrphanSubentryDropped == [][C2_Step]_vars

\* a finished run over a document that starts with a dash-prefixed paragraph
\* and still produces an entry, with a subentry, afterwards
C2_Witness ==
    /\ pc = "done"
    /\ Len(paras) = 3
    /\ IsDashPara(1)
    /\ Len(entries) = 1
    /\ Len(entries[1].subentries) = 1

C3_Step ==
    /\ Len(entries') # Len(entries) =>
          /\ InLoop /\ ptext # <<>>
          /\ is_list_item(para) /\ ~is_subentry_line(ptext)
          /\ Len(entries') = Len(entries) + 1
          /\ LET new == entries'[Len(entries')]
                 own == parse_entry_text(ptext)
             IN  /\ new.lemma = own.lemma
                 /\ new.attributes = own.attributes
                 /\ new.notes = own.notes
    /\ InLoop /\ is_subentry_line(ptext) => Len(entries') = Len(entries)
    /\ InLoop /\ ~is_subentry_line(ptext) /\ ~is_list_item(para) =>
          UNCHANGED <<entries, last_entry, prev_non_sub_entry>>

\* C3: a top-level entry is only ever added by a paragraph whose list-item
\* flag is true and whose normalized text is not dash-prefixed; a dash-prefixed
\* paragraph adds no top-level entry even when it is flagged as a list item;
\* a paragraph that is neither dash-prefixed nor a list item changes nothing.
C3_TopLevelFromListItems == [][C3_Step]_vars

\* a finished run that met a dash-prefixed paragraph flagged as a list item
\* after an entry, and a non-empty paragraph that is neither
C3_Witness ==
    /\ pc = "done"
    /\ Len(entries) = 1
    /\ \E k \in 1..Len(paras) :
          IsDashPara(k) /\ paras[k].isListItem /\ \E i \in 1..k : StartsEntry(i)
    /\ \E k \in 1..Len(paras) :
          ntext(k) # <<>> /\ ~IsDashPara(k) /\ ~paras[k].isListItem

\* C4 as stated: every subentry that carries sameMeaningAsPrevious and has no
\* senses of its own has the senses and flatGlosses of its parent entry and
\* metadata.inheritedFrom equal to the parent's id; a subentry with senses of
\* its own keeps them.
C4_SubInheritsFromParent ==
    pc = "done" =>
        \A n \in Tops : \A j \in Subs(n) :
            LET sub == entries[n].subentries[j]
                parent == entries[n]
                own == OwnSub(n, j)
            IN  /\ SameMeaningFlag(sub) /\ own.senses = <<>> =>
                      /\ sub.senses = parent.senses
                      /\ sub.glosses = parent.glosses
                      /\ DictGet(sub.metadata, "inheritedFrom") = Some(parent.id)
                /\ own.senses # <<>> => sub.senses = own.senses

\* C4 (amended): every subentry that carries sameMeaningAsPrevious, has no
\* senses of its own and whose parent has a non-empty sense list has the
\* senses and flatGlosses of its parent and metadata.inheritedFrom equal to the
\* parent's id; when the parent has no senses either, the subentry stays
\* without senses and records no inheritedFrom; a subentry with senses of its
\* own keeps them.
C4_SubInheritsFromParentWithSenses ==
    pc = "done" =>
        \A n \in Tops : \A j \in Subs(n) :
            LET sub == entries[n].subentries[j]
                parent == entries[n]
                own == OwnSub(n, j)
            IN  /\ SameMeaningFlag(sub) /\ own.senses = <<>> /\ parent.senses # <<>> =>
                      /\ sub.senses = parent.senses
                      /\ sub.glosses = parent.glosses
                      /\ DictGet(sub.metadata, "inheritedFrom") = Some(parent.id)
                /\ SameMeaningFlag(sub) /\ own.senses = <<>> /\ parent.senses = <<>> =>
                      /\ sub.senses = <<>>
                      /\ sub.glosses = <<>>
                      /\ "inheritedFrom" \notin DOMAIN sub.metadata
                /\ own.senses # <<>> => sub.senses = own.senses

\* a subentry that inherited from its parent, the second entry, whose senses
\* differ from those of the first entry
C4_Witness ==
    /\ pc = "done"
    /\ Len(entries) = 2
    /\ entries[2].senses # entries[1].senses
    /\ entries[1].senses # <<>>
    /\ Len(entries[2].subentries) = 1
    /\ OwnSub(2, 1).senses = <<>>
    /\ entries[2].subentries[1].senses = entries[2].senses
    /\ "inheritedFrom" \in DOMAIN entries[2].subentries[1].metadata

\* i as four decimal digits, i < 10000
FourDigits(i) ==
    <<DigitChars[((i \div 1000) % 10) + 1], DigitChars[((i \div 100) % 10) + 1],
      DigitChars[((i \div 10) % 10) + 1], DigitChars[(i % 10) + 1]>>

\* j in decimal, j < 100
Decimal(j) ==
    IF j < 10 THEN <<DigitChars[j + 1]>>
    ELSE <<DigitChars[(j \div 10) + 1], DigitChars[(j % 10) + 1]>>

\* the ids of the output
AllIds ==
    {entries[n].id : n \in Tops}
        \cup UNION {{entries[n].subentries[j].id : j \in Subs(n)} : n \in Tops}

\* the number of entries and subentries of the output
RECURSIVE CountFrom(_)
CountFrom(n) ==
    IF n > Len(entries) THEN 0
    ELSE 1 + Len(entries[n].subentries) + CountFrom(n + 1)

\* C5: when parse_document is finished, the i-th top-level entry has id
\* base ':' i zero-padded to four digits, its j-th subentry has id
\* parentId '-' j, no id is null and all ids are pairwise distinct.
C5_SequentialIds ==
    pc = "done" =>
        /\ \A i \in Tops :
              /\ entries[i].id = Some(base \o <<":">> \o FourDigits(i))
              /\ \A j \in Subs(i) :
                    entries[i].subentries[j].id
                        = Some(entries[i].id[1] \o <<"-">> \o Decimal(j))
        /\ None \notin AllIds
        /\ Cardinality(AllIds) = CountFrom(1)

\* a finished run with two entries, the second with a subentry, and one with
\* two subentries
C5_Witness ==
    /\ pc = "done"
    /\ \/ Len(entries) = 2 /\ Len(entries[2].subentries) = 1
       \/ Len(entries) = 1 /\ Len(entries[1].subentries) = 2

\* C6: for every entry and subentry of the final output, entries whose glosses
\* were filled by inheritance included, an absent lemma and a non-empty flat
\* gloss list imply metadata.type = "phrase".
C6_PhraseTypeWhenNoLemma ==
    pc = "done" =>
        \A n \in Tops :
            /\ entries[n].lemma = None /\ entries[n].glosses # <<>> =>
                  DictGet(entries[n].metadata, "type") = Some("phrase")
            /\ \A j \in Subs(n) :
                  LET sub == entries[n].subentries[j]
                  IN  sub.lemma = None /\ sub.glosses # <<>> =>
                          DictGet(sub.metadata, "type") = Some("phrase")

\* main gloss then synonyms, sense after sense
RECURSIVE Linearize(_)
Linearize(senses) ==
    IF senses = <<>> THEN <<>>
    ELSE <<Head(senses).gloss>> \o Head(senses).synonyms \o Linearize(Tail(senses))

RECURSIVE SumOnePlusSynonyms(_)
SumOnePlusSynonyms(senses) ==
    IF senses = <<>> THEN 0
    ELSE 1 + Len(Head(senses).synonyms) + SumOnePlusSynonyms(Tail(senses))

FlatMatchesSenses(e) ==
    /\ e.glosses = Linearize(e.senses)
    /\ Len(e.glosses) = SumOnePlusSynonyms(e.senses)

\* C7: for every entry and subentry, after parsing and after any inheritance,
\* flatGlosses is the in-order concatenation over the senses of the main gloss
\* followed by its synonyms, so len(flatGlosses) is the sum over the senses of
\* 1 + len(synonyms).
C7_FlatGlossesLinearizeSenses ==
    \A n \in Tops :
        /\ FlatMatchesSenses(entries[n])
        /\ \A j \in Subs(n) : FlatMatchesSenses(entries[n].subentries[j])

\* an entry that inherited a sense with a synonym from the entry before it,
\* and its subentry that inherited them in turn
C7_Witness ==
    /\ pc = "done"
    /\ Len(entries) = 2
    /\ OwnTop(2).senses = <<>>
    /\ Len(entries[2].glosses) = 3
    /\ Len(entries[2].subentries) = 1
    /\ OwnSub(2, 1).senses = <<>>
    /\ Len(entries[2].subentries[1].glosses) = 3

----------------------------------------------------------------------------
(* The document variables while a single function is under check *)

DocIdle ==
    /\ paras = <<>>
    /\ pidx = 1
    /\ entries = <<>>
    /\ last_entry = 0
    /\ prev_non_sub_entry = 0
    /\ aidx = 0
    /\ pc = "fn"

\* all sequences over S of length at most n
SeqsUpTo(S, n) == UNION {[1..k -> S] : k \in 0..n}

----------------------------------------------------------------------------
(* normalize_text applied to a text, then to its own result *)

NormAlphabet == {"-", "EN_DASH", "EM_DASH", "TATWEEL", " ", "TAB", "KAF"}
MaxNormLen == 5

InitNorm ==
    /\ DocIdle
    /\ fin \in SeqsUpTo(NormAlphabet, MaxNormLen)
    /\ fout = <<>> /\ fout2 = <<>> /\ fpc = "in"

Normalize ==
    /\ fpc = "in"
    /\ fout' = normalize_text(fin)
    /\ fpc' = "once"
    /\ UNCHANGED <<docvars, fin, fout2>>

NormalizeAgain ==
    /\ fpc = "once"
    /\ fout2' = normalize_text(fout)
    /\ fpc' = "twice"
    /\ UNCHANGED <<docvars, fin, fout>>

NextNorm == Normalize \/ NormalizeAgain

SpecNorm == InitNorm /\ [][NextNorm]_vars

\* C9: normalize_text is idempotent, normalize_text(normalize_text(s)) =
\* normalize_text(s) for every s, and the empty text normalizes to the empty text.
C9_NormalizeIdempotent ==
    /\ fpc = "twice" => fout2 = fout
    /\ fpc # "in" /\ fin = <<>> => fout = <<>>

\* a text whose tatweel separates two whitespace characters and whose dash is
\* folded: normalization changed it, and was applied twice
C9_Witness ==
    /\ fpc = "twice"
    /\ \E i \in 2..(Len(fin) - 1) :
          fin[i] = "TATWEEL" /\ IsSpace(fin[i - 1]) /\ IsSpace(fin[i + 1])
    /\ fin[1] = "EM_DASH"
    /\ fout = <<"-", " ", "KAF">>

----------------------------------------------------------------------------
(* build_senses applied to a gloss residual *)

GlossAlphabet == {"KAF", "1", "/", ";", "AR_SEMI", ".", " "}
MaxGlossLen == 5

InitSenses ==
    /\ DocIdle
    /\ fin \in SeqsUpTo(GlossAlphabet, MaxGlossLen)
    /\ fout = <<>> /\ fout2 = <<>> /\ fpc = "in"

BuildSenses ==
    /\ fpc = "in"
    /\ fout' = build_senses(fin)
    /\ fpc' = "once"
    /\ UNCHANGED <<docvars, fin, fout2>>

NextSenses == BuildSenses

SpecSenses == InitSenses /\ [][NextSenses]_vars

\* The pieces of s between the characters of Delims, by position: piece k lies
\* between the (k-1)-th and the k-th delimiter.
PiecesOf(s, Delims) ==
    LET B == {0, Len(s) + 1} \cup {i \in 1..Len(s) : s[i] \in Delims}
        Rank(b) == Cardinality({c \in B : c < b})
        Bound(k) == CHOOSE b \in B : Rank(b) = k
    IN  [k \in 1..(Cardinality(B) - 1) |->
            SubSeq(s, Bound(k - 1) + 1, Bound(k) - 1)]

\* s without its leading and trailing whitespace, by position
Trimmed(s) ==
    LET N == {i \in 1..Len(s) : ~IsSpace(s[i])}
    IN  IF N = {} THEN <<>>
        ELSE SubSeq(s, CHOOSE i \in N : \A j \in N : i <= j,
                       CHOOSE i \in N : \A j \in N : j <= i)

NonEmptyTrimmed(ps) ==
    SelectSeq([k \in 1..Len(ps) |-> Trimmed(ps[k])], LAMBDA x : x # <<>>)

\* the primary segments the claim keeps: trimmed, non-empty, holding an Arabic
\* character
KeptSegments(s) ==
    SelectSeq(NonEmptyTrimmed(PiecesOf(s, {"/", "AR_SEMI", ";"})),
              LAMBDA x : \E i \in 1..Len(x) : x[i] \in ARABIC_RANGE)

----------------------------------------------------------------------------
(* parse_entry_text applied to "plural introducer, forms, lemma, gloss" *)

\* words in the Syriac script; the last is the first plural form of the
\* documented scenario, whose dot above lies outside the Syriac block
SyriacWords ==
    { <<"S_KAPH", "S_TAW", "S_BETH", "S_ALAPH">>,
      <<"S_KAPH", "S_ZQAPHA", "S_TAW", "S_RUKKAKHA", "S_ZQAPHA", "S_BETH",
        "S_RUKKAKHA", "S_ZQAPHA", "S_ALAPH">>,
      <<"S_KAPH", "S_TAW", "S_RUKKAKHA", "S_ZQAPHA", "S_BETH", "S_RUKKAKHA",
        "S_ZLAMA", "COMBINING_DOT_ABOVE", "S_ALAPH">> }

GlossWords == { <<"THAL", "KAF", "REH">>, <<"KAF", "LAM">> }

MaxForms == 2

\* forms joined by a comma and a space
RECURSIVE JoinForms(_, _)
JoinForms(forms, comma) ==
    IF Len(forms) = 1 THEN forms[1]
    ELSE forms[1] \o <<comma, " ">> \o JoinForms(Tail(forms), comma)

\* the entry text: introducer, forms, a space, the lemma, a space, the gloss
PluralEntryText(in) ==
    <<"JEEM", " ">> \o JoinForms(in.forms, in.comma) \o <<" ">> \o in.lemma
        \o <<" ">> \o in.gloss

PluralEntryInputs ==
    { [forms |-> f, comma |-> c, lemma |-> l, gloss |-> g] :
        f \in UNION {[1..n -> SyriacWords] : n \in 1..MaxForms},
        c \in {"AR_COMMA", ","},
        l \in SyriacWords,
        g \in GlossWords }

InitEntry ==
    /\ DocIdle
    /\ fin \in PluralEntryInputs
    /\ fout = <<>> /\ fout2 = <<>> /\ fpc = "in"

ParseEntry ==
    /\ fpc = "in"
    /\ fout' = parse_entry_text(PluralEntryText(fin))
    /\ fpc' = "once"
    /\ UNCHANGED <<docvars, fin, fout2>>

NextEntry == ParseEntry

SpecEntry == InitEntry /\ [][NextEntry]_vars

\* C8: for entry text made of the plural introducer, forms in the source
\* script separated by commas, a space, the lemma in the source script and
\* gloss text, parse_entry_text returns exactly the forms as pluralForms, the
\* following word as lemma, and the gloss text as the only sense.
C8_PluralsStopBeforeLemma ==
    fpc = "once" =>
        /\ fout.plurals = fin.forms
        /\ fout.lemma = Some(fin.lemma)
        /\ fout.senses = <<[gloss |-> fin.gloss, synonyms |-> <<>>]>>

----------------------------------------------------------------------------
(* extract_ipa applied to a text *)

IpaAlphabet == {"/", "[", "]", "a", " ", "KAF"}
MaxIpaLen == 6

InitIpa ==
    /\ DocIdle
    /\ fin \in SeqsUpTo(IpaAlphabet, MaxIpaLen)
    /\ fout = <<>> /\ fout2 = <<>> /\ fpc = "in"

ExtractIpa ==
    /\ fpc = "in"
    /\ fout' = extract_ipa(fin)
    /\ fpc' = "once"
    /\ UNCHANGED <<docvars, fin, fout2>>

NextIpa == ExtractIpa

SpecIpa == InitIpa /\ [][NextIpa]_vars

\* the spans  open ... close  of text with a non-empty content free of close
DelimitedSpans(text, open, close) ==
    {s \in (1..Len(text)) \X (1..Len(text)) :
        /\ text[s[1]] = open /\ text[s[2]] = close
        /\ s[2] >= s[1] + 2
        /\ \A i \in (s[1] + 1)..(s[2] - 1) : text[i] # close}

\* the bracket spans whose content has a Latin/IPA-range character
LatinBracketSpans(text) ==
    {s \in DelimitedSpans(text, "[", "]") :
        HasChar(SubSeq(text, s[1] + 1, s[2] - 1), IPA_LATIN_RANGE)}

\* the maximal runs of Latin/IPA-range characters of text
LatinRuns(text) ==
    {s \in (1..Len(text)) \X (1..Len(text)) :
        /\ s[1] <= s[2]
        /\ \A i \in s[1]..s[2] : text[i] \in IPA_LATIN_RANGE
        /\ s[1] = 1 \/ text[s[1] - 1] \notin IPA_LATIN_RANGE
        /\ s[2] = Len(text) \/ text[s[2] + 1] \notin IPA_LATIN_RANGE}

LongestLatinRuns(text) ==
    {s \in LatinRuns(text) :
        \A t \in LatinRuns(text) : t[2] - t[1] <= s[2] - s[1]}

\* the result is the content from..to of the span p..q, and the span is what
\* the residual text lost (both up to surrounding whitespace)
IpaTook(p, q, from, to) ==
    /\ fout.field = Some(strip(SubSeq(fin, from, to)))
    /\ strip(fout.text) = strip(Remove(fin, p, q))

\* C11: extract_ipa applies a three-tier fallback whose first successful tier
\* short-circuits: (a) a slash-delimited span gives its content as the
\* pronunciation; (b) else a bracket-delimited span whose content has a
\* Latin/IPA-range character gives its content; (c) else the pronunciation is
\* the longest maximal run of Latin/IPA-range characters of the text.  The
\* matched span, delimiters included, is what the residual text loses; when no
\* tier matches the pronunciation is absent and the text is unchanged.
C11_IpaThreeTierFallback ==
    fpc = "once" =>
        IF DelimitedSpans(fin, "/", "/") # {}
        THEN \E s \in DelimitedSpans(fin, "/", "/") :
                IpaTook(s[1], s[2], s[1] + 1, s[2] - 1)
        ELSE IF LatinBracketSpans(fin) # {}
        THEN \E s \in LatinBracketSpans(fin) :
                IpaTook(s[1], s[2], s[1] + 1, s[2] - 1)
        ELSE IF LatinRuns(fin) # {}
        THEN \E s \in LongestLatinRuns(fin) : IpaTook(s[1], s[2], s[1], s[2])
        ELSE fout = [field |-> None, text |-> fin]

====
